---------------------------- MODULE Spec2Model ----------------------------
(***************************************************************************)
(* Model of the data pipeline of src/app.py: load_files, normalize,        *)
(* add_total, the combined group-by / outer-merge aggregation, the empty   *)
(* check and the date-range filter.                                        *)
(*                                                                         *)
(* Text is modelled as a sequence of one-character strings, so that the    *)
(* string operations of the source (strip, lower, replace) are computed    *)
(* character by character.  A DataFrame is a record                        *)
(*   [columns |-> sequence of column names, rows |-> sequence of rows]     *)
(* where a row is a sequence of cells aligned with columns.  A cell is a   *)
(* record [t, s, n]: t is the kind ("str" text, "num" number, "nan" the    *)
(* numeric/text null, "ts" a timestamp, "nat" the null timestamp), s the   *)
(* text of a "str" cell and n the value of a "num" cell, counted in tenths *)
(* so that one fractional digit is representable (25 is 2.5), or the       *)
(* yyyymmdd number of a "ts" cell.                                         *)
(***************************************************************************)
EXTENDS Integers, Sequences, FiniteSets, TLC

VARIABLES pc, fs, dataset, enr, dem, bio, df, prev, start, end, outcome

vars == <<pc, fs, dataset, enr, dem, bio, df, prev, start, end, outcome>>

-----------------------------------------------------------------------------
(* Text helpers: Python str operations on character sequences.             *)

Whitespace == {" ", "\t"}

UpperChars == <<"A", "B", "C", "D", "E", "F", "G", "H", "I", "J", "K", "L", "M", "N", "O", "P", "Q", "R", "S", "T", "U", "V", "W", "X", "Y", "Z">>

LowerChars == <<"a", "b", "c", "d", "e", "f", "g", "h", "i", "j", "k", "l", "m", "n", "o", "p", "q", "r", "s", "t", "u", "v", "w", "x", "y", "z">>

DigitChars == <<"0", "1", "2", "3", "4", "5", "6", "7", "8", "9">>

IsDigit(c) == \E i \in 1..10 : DigitChars[i] = c

DigitVal(c) == (CHOOSE i \in 1..10 : DigitChars[i] = c) - 1

LowerChar(c) ==
    IF \E i \in 1..26 : UpperChars[i] = c
    THEN LowerChars[CHOOSE i \in 1..26 : UpperChars[i] = c]
    ELSE c

\* str.lower()
Lower(s) == [i \in 1..Len(s) |-> LowerChar(s[i])]

RECURSIVE LStrip(_)
LStrip(s) ==
    IF s # <<>> /\ Head(s) \in Whitespace THEN LStrip(Tail(s)) ELSE s

RECURSIVE RStrip(_)
RStrip(s) ==
    IF s # <<>> /\ s[Len(s)] \in Whitespace
    THEN RStrip(SubSeq(s, 1, Len(s) - 1))
    ELSE s

\* str.strip()
Strip(s) == RStrip(LStrip(s))

\* str.replace(pat, rep) with a literal pattern: every non-overlapping
\* occurrence, scanning left to right
RECURSIVE Replace(_, _, _)
Replace(s, pat, rep) ==
    IF Len(s) < Len(pat) THEN s
    ELSE IF SubSeq(s, 1, Len(pat)) = pat
         THEN rep \o Replace(SubSeq(s, Len(pat) + 1, Len(s)), pat, rep)
         ELSE <<Head(s)>> \o Replace(Tail(s), pat, rep)

\* decimal text of a natural number
RECURSIVE NatText(_)
NatText(n) ==
    IF n < 10 THEN <<DigitChars[n + 1]>>
    ELSE NatText(n \div 10) \o <<DigitChars[(n % 10) + 1]>>

\* str() of a float whose value is n tenths: "11.0", "-2.5"
FloatText(n) ==
    LET a == IF n < 0 THEN 0 - n ELSE n IN
    (IF n < 0 THEN <<"-">> ELSE <<>>)
        \o NatText(a \div 10) \o <<".">> \o NatText(a % 10)

\* value of a non-empty sequence of digits
RECURSIVE DigitsVal(_)
DigitsVal(s) ==
    IF s = <<>> THEN 0
    ELSE 10 * DigitsVal(SubSeq(s, 1, Len(s) - 1)) + DigitVal(s[Len(s)])

AllDigits(s) == s # <<>> /\ \A i \in 1..Len(s) : IsDigit(s[i])

-----------------------------------------------------------------------------
(* Cells                                                                   *)

Str(s) == [t |-> "str", s |-> s, n |-> 0]

\* a number of n tenths
Num(n) == [t |-> "num", s |-> <<>>, n |-> n]

\* the whole number k
Whole(k) == Num(10 * k)

NaN == [t |-> "nan", s |-> <<>>, n |-> 0]

Ts(y, m, d) == [t |-> "ts", s |-> <<>>, n |-> y * 10000 + m * 100 + d]

NaT == [t |-> "nat", s |-> <<>>, n |-> 0]

IsNull(c) == c.t \in {"nan", "nat"}

\* Series.astype(str), cell by cell
AsTypeStr(c) ==
    CASE c.t = "str" -> c
      [] c.t = "num" -> Str(FloatText(c.n))
      [] c.t = "nan" -> Str(<<"n", "a", "n">>)
      [] c.t = "nat" -> Str(<<"N", "a", "T">>)
      [] OTHER -> c

\* value in tenths of unsigned decimal text: digits, or digits "." digit
IsDecimal(s) ==
    \/ AllDigits(s)
    \/ /\ Len(s) >= 3
       /\ s[Len(s) - 1] = "."
       /\ IsDigit(s[Len(s)])
       /\ AllDigits(SubSeq(s, 1, Len(s) - 2))

DecimalVal(s) ==
    IF AllDigits(s) THEN 10 * DigitsVal(s)
    ELSE 10 * DigitsVal(SubSeq(s, 1, Len(s) - 2)) + DigitVal(s[Len(s)])

\* pd.to_numeric(errors="coerce"), cell by cell: a number stays; text that is
\* a decimal literal (optional sign, surrounding whitespace allowed, at most
\* one fractional digit in the inputs drawn) parses; other text and nulls
\* become NaN
ToNumeric(c) ==
    CASE c.t = "num" -> c
      [] c.t = "str" ->
           LET s == Strip(c.s) IN
           IF IsDecimal(s) THEN Num(DecimalVal(s))
           ELSE IF s # <<>> /\ Head(s) = "-" /\ IsDecimal(Tail(s))
                THEN Num(0 - DecimalVal(Tail(s)))
                ELSE NaN
      [] OTHER -> NaN

\* Series.astype(int) on a float of n tenths: truncation toward zero
AsTypeInt(n) == IF n >= 0 THEN 10 * (n \div 10) ELSE 0 - 10 * ((0 - n) \div 10)

\* Series.fillna(0), cell by cell
FillNa0(c) == IF IsNull(c) THEN Num(0) ELSE c

IsLeap(y) == (y % 4 = 0 /\ y % 100 # 0) \/ y % 400 = 0

DaysIn(y, m) ==
    IF m = 2 THEN (IF IsLeap(y) THEN 29 ELSE 28)
    ELSE IF m \in {4, 6, 9, 11} THEN 30 ELSE 31

ValidYMD(y, m, d) == y >= 1 /\ m \in 1..12 /\ d >= 1 /\ d <= DaysIn(y, m)

\* pd.to_datetime(errors="coerce", dayfirst=True), cell by cell, for text of
\* the shape NN-NN-NNNN: day first when that is a date, else month first,
\* else NaT; a timestamp stays; other text and nulls become NaT
ToDatetime(c) ==
    CASE c.t = "ts" -> c
      [] c.t = "str" ->
           LET s == c.s IN
           IF Len(s) = 10 /\ s[3] = "-" /\ s[6] = "-"
              /\ AllDigits(SubSeq(s, 1, 2)) /\ AllDigits(SubSeq(s, 4, 5))
              /\ AllDigits(SubSeq(s, 7, 10))
           THEN LET a == DigitsVal(SubSeq(s, 1, 2))
                    b == DigitsVal(SubSeq(s, 4, 5))
                    y == DigitsVal(SubSeq(s, 7, 10))
                IN  IF ValidYMD(y, b, a) THEN Ts(y, b, a)
                    ELSE IF ValidYMD(y, a, b) THEN Ts(y, a, b)
                    ELSE NaT
           ELSE NaT
      [] OTHER -> NaT

Pad(s, w) == IF Len(s) < w THEN [i \in 1..(w - Len(s)) |-> "0"] \o s ELSE s

\* Series.dt.to_period("M").astype(str), cell by cell: "YYYY-MM", and the
\* text "NaT" for the null timestamp
ToPeriodMStr(c) ==
    IF c.t = "ts"
    THEN Str(Pad(NatText(c.n \div 10000), 4) \o <<"-">>
             \o Pad(NatText((c.n \div 100) % 100), 2))
    ELSE Str(<<"N", "a", "T">>)

-----------------------------------------------------------------------------
(* DataFrames                                                              *)

EmptyFrame == [columns |-> <<>>, rows |-> <<>>]

\* DataFrame.empty
IsEmpty(d) == Len(d.columns) = 0 \/ Len(d.rows) = 0

HasCol(d, c) == \E i \in 1..Len(d.columns) : d.columns[i] = c

ColIndex(d, c) == CHOOSE i \in 1..Len(d.columns) : d.columns[i] = c

\* df[c]: the cells of column c, one per row
Col(d, c) == [r \in 1..Len(d.rows) |-> d.rows[r][ColIndex(d, c)]]

\* df[c] = vals: replace the column, or append it when it is new
SetCol(d, c, vals) ==
    IF HasCol(d, c)
    THEN [d EXCEPT !.rows =
            [r \in 1..Len(d.rows) |-> [d.rows[r] EXCEPT ![ColIndex(d, c)] = vals[r]]]]
    ELSE [columns |-> Append(d.columns, c),
          rows |-> [r \in 1..Len(d.rows) |-> Append(d.rows[r], vals[r])]]

-----------------------------------------------------------------------------
(* Column names the source refers to                                       *)

date == <<"d", "a", "t", "e">>

month == <<"m", "o", "n", "t", "h">>

state == <<"s", "t", "a", "t", "e">>

district == <<"d", "i", "s", "t", "r", "i", "c", "t">>

pincode == <<"p", "i", "n", "c", "o", "d", "e">>

total == <<"t", "o", "t", "a", "l">>

enrol == <<"e", "n", "r", "o", "l">>

demo == <<"d", "e", "m", "o">>

bioName == <<"b", "i", "o">>

EnrolmentCols == << <<"a", "g", "e", "_", "0", "_", "5">>, <<"a", "g", "e", "_", "5", "_", "1", "7">>, <<"a", "g", "e", "_", "1", "8", "_", "g", "r", "e", "a", "t", "e", "r">> >>

DemographicCols == << <<"d", "e", "m", "o", "_", "a", "g", "e", "_", "5", "_", "1", "7">>, <<"d", "e", "m", "o", "_", "a", "g", "e", "_", "1", "7", "_">> >>

BiometricCols == << <<"b", "i", "o", "_", "a", "g", "e", "_", "5", "_", "1", "7">>, <<"b", "i", "o", "_", "a", "g", "e", "_", "1", "7", "_">> >>

ENROLMENT_FILES ==
    <<"enrollment_all (1).csv", "enrollment_all (1)_2.csv", "enrollment_all (1)_3.csv">>

DEMOGRAPHIC_FILES == <<"demo_all (1).csv", "demo_all (1)_2.csv">>

BIOMETRIC_FILES == <<"mightymerge.io__xzzeu4zp.csv", "mightymerge.io__xzzeu4zp (1)_2.csv">>

-----------------------------------------------------------------------------
(* load_files                                                              *)

\* pd.concat([a, b], ignore_index=True): the columns of a, then the new ones
\* of b; a cell of a column the row's frame lacks is NaN
Concat(a, b) ==
    LET new  == SelectSeq(b.columns, LAMBDA c : ~HasCol(a, c))
        cols == a.columns \o new
        Cell(d, r, c) == IF HasCol(d, c) THEN d.rows[r][ColIndex(d, c)] ELSE NaN
        Rows(d) == [r \in 1..Len(d.rows) |->
                       [i \in 1..Len(cols) |-> Cell(d, r, cols[i])]]
    IN  [columns |-> cols, rows |-> Rows(a) \o Rows(b)]

\* the frames of the files of the list that exist, in list order
RECURSIVE ReadExisting(_, _)
ReadExisting(disk, files) ==
    IF files = <<>> THEN <<>>
    ELSE (IF disk[Head(files)].exists THEN <<disk[Head(files)].frame>> ELSE <<>>)
             \o ReadExisting(disk, Tail(files))

RECURSIVE ConcatAll(_)
ConcatAll(dfs) ==
    IF Len(dfs) = 1 THEN dfs[1]
    ELSE Concat(ConcatAll(SubSeq(dfs, 1, Len(dfs) - 1)), dfs[Len(dfs)])

load_files(disk, files) ==
    LET dfs == ReadExisting(disk, files) IN
    IF dfs # <<>> THEN ConcatAll(dfs) ELSE EmptyFrame

-----------------------------------------------------------------------------
(* normalize                                                               *)

\* .str.strip().str.lower().str.replace(" ", "_").str.replace("-", "_")
NormName(c) == Replace(Replace(Lower(Strip(c)), <<" ">>, <<"_">>), <<"-">>, <<"_">>)

NormColumns(d) == [d EXCEPT !.columns = [i \in 1..Len(d.columns) |-> NormName(d.columns[i])]]

NormDate(d) ==
    IF HasCol(d, date)
    THEN LET d1 == SetCol(d, date, [r \in 1..Len(d.rows) |-> ToDatetime(Col(d, date)[r])])
         IN  SetCol(d1, month, [r \in 1..Len(d1.rows) |-> ToPeriodMStr(Col(d1, date)[r])])
    ELSE d

\* df[c] = df[c].astype(str).str.strip()
NormText(d, c) ==
    IF HasCol(d, c)
    THEN SetCol(d, c, [r \in 1..Len(d.rows) |->
                          Str(Strip(AsTypeStr(Col(d, c)[r]).s))])
    ELSE d

\* .astype(str).str.replace(".0", "", regex=False), one cell
PincodeText(c) == Str(Replace(AsTypeStr(c).s, <<".", "0">>, <<>>))

NormPincode(d) ==
    IF HasCol(d, pincode)
    THEN SetCol(d, pincode, [r \in 1..Len(d.rows) |-> PincodeText(Col(d, pincode)[r])])
    ELSE d

normalize(d) ==
    IF IsEmpty(d) THEN d
    ELSE NormPincode(NormText(NormText(NormDate(NormColumns(d)), state), district))

-----------------------------------------------------------------------------
(* add_total                                                               *)

\* the loop of add_total: a missing column is created as 0, then every
\* expected column is coerced to numeric with nulls filled by 0
RECURSIVE CoerceCols(_, _)
CoerceCols(d, cols) ==
    IF cols = <<>> THEN d
    ELSE LET c  == Head(cols)
             d1 == IF HasCol(d, c) THEN d
                   ELSE SetCol(d, c, [r \in 1..Len(d.rows) |-> Num(0)])
             d2 == SetCol(d1, c, [r \in 1..Len(d1.rows) |->
                                     FillNa0(ToNumeric(Col(d1, c)[r]))])
         IN  CoerceCols(d2, Tail(cols))

\* a row sum that stops after the first column
RowSum_first(d, r, cols) ==
    IF cols = <<>> THEN 0 ELSE d.rows[r][ColIndex(d, Head(cols))].n

\* df[cols].sum(axis=1), one row, in tenths
RECURSIVE RowSum(_, _, _)
RowSum(d, r, cols) ==
    IF cols = <<>> THEN 0
    ELSE d.rows[r][ColIndex(d, Head(cols))].n + RowSum(d, r, Tail(cols))

add_total(d, cols, name) ==
    LET d1 == CoerceCols(d, cols) IN
    SetCol(d1, name, [r \in 1..Len(d1.rows) |-> Num(AsTypeInt(RowSum(d1, r, cols)))])

-----------------------------------------------------------------------------
(* Combined aggregation: group-by, outer merge, fill, grand total          *)

key == <<date, state, district, pincode, month>>

\* characters in code-point order, for the lexicographic sort of the merge
CharOrder ==
    <<"\t", " ", "-", ".", "/">> \o DigitChars \o UpperChars \o <<"_">> \o LowerChars

Rank(c) == CHOOSE i \in 1..Len(CharOrder) : CharOrder[i] = c

RECURSIVE TextLess(_, _)
TextLess(a, b) ==
    IF b = <<>> THEN FALSE
    ELSE IF a = <<>> THEN TRUE
    ELSE IF Head(a) = Head(b) THEN TextLess(Tail(a), Tail(b))
    ELSE Rank(Head(a)) < Rank(Head(b))

CellLess(a, b) == IF a.t = "str" THEN TextLess(a.s, b.s) ELSE a.n < b.n

RECURSIVE KeyLess(_, _)
KeyLess(a, b) ==
    IF a = <<>> THEN FALSE
    ELSE IF Head(a) = Head(b) THEN KeyLess(Tail(a), Tail(b))
    ELSE CellLess(Head(a), Head(b))

RECURSIVE SortKeys(_)
SortKeys(S) ==
    IF S = {} THEN <<>>
    ELSE LET m == CHOOSE k \in S : \A j \in S \ {k} : KeyLess(k, j)
         IN  <<m>> \o SortKeys(S \ {m})

HasKeys(d) == \A i \in 1..Len(key) : HasCol(d, key[i])

KeyOf(d, r) == [i \in 1..Len(key) |-> d.rows[r][ColIndex(d, key[i])]]

HasNull(k) == \E i \in 1..Len(k) : IsNull(k[i])

\* the group keys of groupby(key): rows with a null in a key column are
\* dropped (dropna=True is the default)
GroupKeys(d) == {k \in {KeyOf(d, r) : r \in 1..Len(d.rows)} : ~HasNull(k)}

\* the sum of column c over the rows r..Len(d.rows) whose key is k
RECURSIVE SumWhere(_, _, _, _)
SumWhere(d, c, k, r) ==
    IF r > Len(d.rows) THEN 0
    ELSE (IF KeyOf(d, r) = k THEN d.rows[r][ColIndex(d, c)].n ELSE 0)
             + SumWhere(d, c, k, r + 1)

\* d.groupby(key, as_index=False)[c].sum(): one row per group key, sorted
GroupBySum(d, c) ==
    LET ks == SortKeys(GroupKeys(d)) IN
    [columns |-> key \o <<c>>,
     rows |-> [i \in 1..Len(ks) |-> ks[i] \o <<Num(SumWhere(d, c, ks[i], 1))>>]]

KeysOf(g) == {SubSeq(g.rows[r], 1, Len(key)) : r \in 1..Len(g.rows)}

\* the cells of frame g after its key columns for key k, NaN where g has no
\* row with key k
Metrics(g, k) ==
    IF k \in KeysOf(g)
    THEN LET r == CHOOSE r \in 1..Len(g.rows) : SubSeq(g.rows[r], 1, Len(key)) = k
         IN  SubSeq(g.rows[r], Len(key) + 1, Len(g.columns))
    ELSE [i \in 1..(Len(g.columns) - Len(key)) |-> NaN]

\* a.merge(b, on=key, how="outer"): the union of the keys, sorted
MergeOuter(a, b) ==
    LET ks == SortKeys(KeysOf(a) \cup KeysOf(b)) IN
    [columns |-> a.columns \o SubSeq(b.columns, Len(key) + 1, Len(b.columns)),
     rows |-> [i \in 1..Len(ks) |-> ks[i] \o Metrics(a, ks[i]) \o Metrics(b, ks[i])]]

\* a merge result whose nulls are left unfilled
FillFrame_none(d) == d

\* DataFrame.fillna(0)
FillFrame(d) ==
    [d EXCEPT !.rows = [r \in 1..Len(d.rows) |->
                           [i \in 1..Len(d.rows[r]) |-> FillNa0(d.rows[r][i])]]]

\* lines 135-141, for frames that have the key columns
Aggregate(e, d, b) ==
    LET j == FillFrame(MergeOuter(MergeOuter(GroupBySum(e, enrol), GroupBySum(d, demo)),
                                  GroupBySum(b, bioName)))
    IN  SetCol(j, total, [r \in 1..Len(j.rows) |->
                             Num(AsTypeInt(RowSum(j, r, <<enrol, demo, bioName>>)))])

-----------------------------------------------------------------------------
(* The date-range filter                                                   *)

\* df[(df["date"].dt.date >= start) & (df["date"].dt.date <= end)]: a
\* comparison with a null date is False
\* a range test that excludes the end date
InRange_open(c, s, e) == c.t = "ts" /\ c.n >= s /\ c.n < e

InRange(c, s, e) == c.t = "ts" /\ c.n >= s /\ c.n <= e

FilterRange(d, s, e) ==
    [d EXCEPT !.rows = SelectSeq(d.rows, LAMBDA row : InRange(row[ColIndex(d, date)], s, e))]

-----------------------------------------------------------------------------
(* The inputs of a run: the CSV files on disk                              *)

\* at most MaxRows data rows over all the input files
MaxRows == 5

Category == {"Enrolment", "Demographic", "Biometric"}

Files(c) ==
    CASE c = "Enrolment" -> ENROLMENT_FILES
      [] c = "Demographic" -> DEMOGRAPHIC_FILES
      [] c = "Biometric" -> BIOMETRIC_FILES

Cols(c) ==
    CASE c = "Enrolment" -> EnrolmentCols
      [] c = "Demographic" -> DemographicCols
      [] c = "Biometric" -> BiometricCols

\* the header line of the files of a category, as written in the CSV
Header(c) ==
    CASE c = "Enrolment" ->
           << <<"d", "a", "t", "e">>, <<"s", "t", "a", "t", "e">>, <<"d", "i", "s", "t", "r", "i", "c", "t">>, <<"p", "i", "n", "c", "o", "d", "e">> >> \o EnrolmentCols
      [] c = "Demographic" ->
           << <<"D", "a", "t", "e">>, <<"S", "t", "a", "t", "e">>, <<"D", "i", "s", "t", "r", "i", "c", "t">>, <<"P", "i", "n", "c", "o", "d", "e">>,
              <<"d", "e", "m", "o", "_", "a", "g", "e", "_", "5", "_", "1", "7">>, <<"d", "e", "m", "o", "_", "a", "g", "e", "_", "1", "7", "_">> >>
      [] c = "Biometric" ->
           << <<" ", "d", "a", "t", "e">>, <<"s", "t", "a", "t", "e", " ">>, <<"D", "i", "s", "t", "r", "i", "c", "t">>, <<"p", "i", "n", "c", "o", "d", "e">>,
              <<"b", "i", "o", "_", "a", "g", "e", "_", "5", "_", "1", "7">>, <<"B", "i", "o", "-", "A", "g", "e", "-", "1", "7", "_">> >>

\* a data line: date, state, district "A", pincode, the first metric, and 0
\* in the other metrics
DataRow(c, d, s, p, v) ==
    <<Str(d), Str(s), Str(<<"A">>), p, v>>
        \o [i \in 1..(Len(Cols(c)) - 1) |-> Whole(0)]

\* the two data lines the i-th file of a category may hold
Lines(c, i) ==
    CASE i = 1 -> << DataRow(c, <<"0", "1", "-", "0", "1", "-", "2", "0", "2", "4">>, <<"X">>, Str(<<"1", "1", "0", "0", "0", "1", ".", "0">>), Whole(3)),
                     DataRow(c, <<"1", "5", "-", "0", "2", "-", "2", "0", "2", "4">>, <<"X">>, Str(<<"1", "1", "0", "0", "0", "1", ".", "0">>), Whole(5)) >>
      [] i = 2 -> << DataRow(c, <<"0", "1", "-", "0", "1", "-", "2", "0", "2", "4">>, <<" ", "X", " ">>, Str(<<"1", "1", "0", "0", "0", "1">>), Whole(5)),
                     DataRow(c, <<"n", "/", "a">>, <<"X">>, Str(<<"1", "1", "0", "0", "0", "1", ".", "0">>), Whole(3)) >>
      [] i = 3 -> << DataRow(c, <<"0", "1", "-", "0", "3", "-", "2", "0", "2", "4">>, <<"X">>, Whole(110001), Whole(3)),
                     DataRow(c, <<"0", "1", "-", "0", "1", "-", "2", "0", "2", "4">>, <<"Y">>, Str(<<"1", "1", "0", "0", "0", "1", ".", "0">>), Whole(2)) >>

\* <<c, i, l>>: line l of the i-th file of category c
Placements == {p \in Category \X (1..3) \X (1..2) : p[2] <= Len(Files(p[1]))}

AllFiles == {Files(p[1])[p[2]] : p \in Placements}

\* the disk on which exactly the lines P are present: a file exists when it
\* holds a line
Disk(P) ==
    [f \in AllFiles |->
        LET c == CHOOSE c \in Category : \E i \in 1..Len(Files(c)) : Files(c)[i] = f
            i == CHOOSE i \in 1..Len(Files(c)) : Files(c)[i] = f
            ls == SelectSeq(<<1, 2>>, LAMBDA l : <<c, i, l>> \in P)
        IN  [exists |-> ls # <<>>,
             frame |-> IF ls = <<>> THEN EmptyFrame
                       ELSE [columns |-> Header(c),
                             rows |-> [n \in 1..Len(ls) |-> Lines(c, i)[ls[n]]]]]]

\* the dates the user may pick as the ends of the range
RangeDates == {20240101, 20240228, 20240301}

-----------------------------------------------------------------------------
(* The script, top to bottom                                               *)

Init ==
    /\ pc = "select"
    /\ \E P \in SUBSET Placements : Cardinality(P) <= MaxRows /\ fs = Disk(P)
    /\ dataset = "none"
    /\ enr = EmptyFrame /\ dem = EmptyFrame /\ bio = EmptyFrame
    /\ df = EmptyFrame /\ prev = EmptyFrame
    /\ start = 0 /\ end = 0
    /\ outcome = "running"

\* lines 105-124: one category selected
SelectSingle(c) ==
    /\ pc = "select"
    /\ dataset' = c
    /\ df' = add_total(normalize(load_files(fs, Files(c))), Cols(c), total)
    /\ pc' = "check"
    /\ UNCHANGED <<fs, enr, dem, bio, prev, start, end, outcome>>

SelectEnrolment == SelectSingle("Enrolment")

SelectDemographic == SelectSingle("Demographic")

SelectBiometric == SelectSingle("Biometric")

\* lines 127-128
CombinedEnr ==
    /\ pc = "select"
    /\ dataset' = "Combined"
    /\ enr' = add_total(normalize(load_files(fs, ENROLMENT_FILES)), EnrolmentCols, enrol)
    /\ pc' = "dem"
    /\ UNCHANGED <<fs, dem, bio, df, prev, start, end, outcome>>

\* lines 129-130
CombinedDem ==
    /\ pc = "dem"
    /\ dem' = add_total(normalize(load_files(fs, DEMOGRAPHIC_FILES)), DemographicCols, demo)
    /\ pc' = "bio"
    /\ UNCHANGED <<fs, dataset, enr, bio, df, prev, start, end, outcome>>

\* lines 131-132
CombinedBio ==
    /\ pc = "bio"
    /\ bio' = add_total(normalize(load_files(fs, BIOMETRIC_FILES)), BiometricCols, bioName)
    /\ pc' = "aggregate"
    /\ UNCHANGED <<fs, dataset, enr, dem, df, prev, start, end, outcome>>

\* lines 134-141: groupby raises KeyError when a key column is missing
CombinedAggregate ==
    /\ pc = "aggregate"
    /\ IF HasKeys(enr) /\ HasKeys(dem) /\ HasKeys(bio)
       THEN /\ df' = Aggregate(enr, dem, bio)
            /\ pc' = "check"
            /\ outcome' = outcome
       ELSE /\ df' = df
            /\ pc' = "raised"
            /\ outcome' = "KeyError"
    /\ UNCHANGED <<fs, dataset, enr, dem, bio, prev, start, end>>

\* lines 143-145
EmptyCheck ==
    /\ pc = "check"
    /\ IF IsEmpty(df)
       THEN pc' = "stopped" /\ outcome' = "NoData"
       ELSE pc' = "filter" /\ outcome' = outcome
    /\ UNCHANGED <<fs, dataset, enr, dem, bio, df, prev, start, end>>

AllNullDates(d) == \A r \in 1..Len(d.rows) : IsNull(d.rows[r][ColIndex(d, date)])

\* lines 148-151: df["date"] raises KeyError without the column; when no
\* date is non-null the default range is (NaT, NaT), which is not a pair of
\* dates, and the date input fails; else the user picks a range and the
\* frame is filtered to it
DateFilter ==
    /\ pc = "filter"
    /\ IF ~HasCol(df, date)
       THEN /\ pc' = "raised" /\ outcome' = "KeyError"
            /\ UNCHANGED <<df, prev, start, end>>
       ELSE IF AllNullDates(df)
       THEN /\ pc' = "raised" /\ outcome' = "DateInputError"
            /\ UNCHANGED <<df, prev, start, end>>
       ELSE \E s \in RangeDates, e \in RangeDates :
              /\ s <= e
              /\ start' = s /\ end' = e
              /\ prev' = df
              /\ df' = FilterRange(df, s, e)
              /\ pc' = "render" /\ outcome' = "Rendered"
    /\ UNCHANGED <<fs, dataset, enr, dem, bio>>

Next ==
    \/ SelectEnrolment \/ SelectDemographic \/ SelectBiometric
    \/ CombinedEnr \/ CombinedDem \/ CombinedBio \/ CombinedAggregate
    \/ EmptyCheck \/ DateFilter

Spec == Init /\ [][Next]_vars

-----------------------------------------------------------------------------
(* normalize applied to one frame, and applied again to its result         *)

\* pincode texts are drawn up to this length
MaxPinLen == 4

PinChars == {".", "0", "1"}

PinTexts == UNION {[1..k -> PinChars] : k \in 0..MaxPinLen}

DateNames == { <<"d", "a", "t", "e">>, <<" ", "D", "a", "t", "e">>, <<"d", "a", "y">> }

PinNames == { <<"p", "i", "n", "c", "o", "d", "e">>, <<"P", "i", "n", "-", "C", "o", "d", "e">> }

DateCells ==
    { Str(<<"0", "1", "-", "0", "2", "-", "2", "0", "2", "4">>), Str(<<"1", "3", "-", "0", "1", "-", "2", "0", "2", "4">>), Str(<<"0", "1", "-", "1", "3", "-", "2", "0", "2", "4">>),
      Str(<<"3", "1", "-", "0", "2", "-", "2", "0", "2", "4">>), Str(<<"n", "/", "a">>), NaN }

StateCells == { Str(<<" ", "X", " ">>), Str(<<"x">>), NaN }

PinCells == {Str(t) : t \in PinTexts} \cup {NaN, Num(110)}

InitNormalize ==
    /\ pc = "raw"
    /\ \E dn \in DateNames, pn \in PinNames,
          d \in DateCells, s \in StateCells, p \in PinCells :
          df = [columns |-> <<dn, <<"S", "t", "a", "t", "e">>, pn>>, rows |-> << <<d, s, p>> >>]
    /\ prev = EmptyFrame
    /\ fs = [f \in AllFiles |-> [exists |-> FALSE, frame |-> EmptyFrame]]
    /\ dataset = "none"
    /\ enr = EmptyFrame /\ dem = EmptyFrame /\ bio = EmptyFrame
    /\ start = 0 /\ end = 0
    /\ outcome = "running"

NormalizeOnce ==
    /\ pc = "raw"
    /\ prev' = df
    /\ df' = normalize(df)
    /\ pc' = "once"
    /\ UNCHANGED <<fs, dataset, enr, dem, bio, start, end, outcome>>

NormalizeAgain ==
    /\ pc = "once"
    /\ prev' = df
    /\ df' = normalize(df)
    /\ pc' = "twice"
    /\ UNCHANGED <<fs, dataset, enr, dem, bio, start, end, outcome>>

NextNormalize == NormalizeOnce \/ NormalizeAgain

SpecNormalize == InitNormalize /\ [][NextNormalize]_vars

-----------------------------------------------------------------------------
(* add_total applied to one frame                                          *)

\* frames of up to this many rows are drawn
MaxTotalRows == 1

\* the cells drawn for a metric column: 3, 2.5, -2, "7", "-1.5", "x", null
MetricCells ==
    { Whole(3), Num(25), Whole(0 - 2), Str(<<"7">>), Str(<<"-", "1", ".", "5">>), Str(<<"x">>), NaN }

\* the columns of cols whose index is in S, in order
Pick(cols, S) == SelectSeq(cols, LAMBDA c : \E i \in S : cols[i] = c)

InitTotal ==
    /\ pc = "raw"
    /\ dataset \in Category
    /\ \E S \in SUBSET (1..Len(Cols(dataset))), n \in 0..MaxTotalRows :
          \E rows \in [1..n -> [1..Cardinality(S) -> MetricCells]] :
             df = [columns |-> Pick(Cols(dataset), S), rows |-> rows]
    /\ prev = EmptyFrame
    /\ fs = [f \in AllFiles |-> [exists |-> FALSE, frame |-> EmptyFrame]]
    /\ enr = EmptyFrame /\ dem = EmptyFrame /\ bio = EmptyFrame
    /\ start = 0 /\ end = 0
    /\ outcome = "running"

AddTotal ==
    /\ pc = "raw"
    /\ prev' = df
    /\ df' = add_total(df, Cols(dataset), total)
    /\ pc' = "totalled"
    /\ UNCHANGED <<fs, dataset, enr, dem, bio, start, end, outcome>>

NextTotal == AddTotal

SpecTotal == InitTotal /\ [][NextTotal]_vars

-----------------------------------------------------------------------------
(* Properties                                                              *)

Cell(d, r, c) == d.rows[r][ColIndex(d, c)]

\* the combined frame has just been built
Aggregated == dataset = "Combined" /\ pc = "check"

AllKeys(d) == {KeyOf(d, r) : r \in 1..Len(d.rows)}

UnionKeys == AllKeys(enr) \cup AllKeys(dem) \cup AllKeys(bio)

\* C1: the combined output has exactly one row for every distinct composite
\* key of the three category tables, keys with a null date included, and no
\* other row
C1_JoinComplete ==
    Aggregated =>
        /\ KeysOf(df) = UnionKeys
        /\ Len(df.rows) = Cardinality(UnionKeys)

RowsWithKey(d, k) == {r \in 1..Len(d.rows) : KeyOf(d, r) = k}

RECURSIVE SumRows(_, _, _)
SumRows(d, c, R) ==
    IF R = {} THEN 0
    ELSE LET r == CHOOSE x \in R : TRUE
         IN  Cell(d, r, c).n + SumRows(d, c, R \ {r})

\* C2: in every row of the combined output, enrol, demo and bio are the sums
\* of that category's metric over its rows with the row's key (0 when the
\* category has none), and total is enrol + demo + bio
C2_ZeroFillTotal ==
    Aggregated =>
        \A r \in 1..Len(df.rows) :
            LET k == KeyOf(df, r)
                e == SumRows(enr, enrol, RowsWithKey(enr, k))
                d == SumRows(dem, demo, RowsWithKey(dem, k))
                b == SumRows(bio, bioName, RowsWithKey(bio, k))
            IN  /\ Cell(df, r, enrol) = Num(e)
                /\ Cell(df, r, demo) = Num(d)
                /\ Cell(df, r, bioName) = Num(b)
                /\ Cell(df, r, total) = Num(e + d + b)

\* two enrolment rows with metrics 3 and 5 share a key no biometric row has
C2_Witness ==
    /\ Aggregated
    /\ \E r \in 1..Len(df.rows) :
          /\ Cardinality(RowsWithKey(enr, KeyOf(df, r))) = 2
          /\ RowsWithKey(bio, KeyOf(df, r)) = {}
          /\ Cell(df, r, enrol) = Whole(8)
          /\ Cell(df, r, bioName) = Whole(0)

\* what each drawn metric cell counts as, in tenths: a number or numeric
\* text counts as its value, other text and null as 0
WorthTable ==
    << <<Whole(3), 30>>, <<Num(25), 25>>, <<Whole(0 - 2), 0 - 20>>,
       <<Str(<<"7">>), 70>>, <<Str(<<"-", "1", ".", "5">>), 0 - 15>>, <<Str(<<"x">>), 0>>, <<NaN, 0>> >>

Worth(c) == WorthTable[CHOOSE i \in 1..Len(WorthTable) : WorthTable[i][1] = c][2]

RECURSIVE WorthSum(_, _, _)
WorthSum(d, r, cols) ==
    IF cols = <<>> THEN 0
    ELSE (IF HasCol(d, Head(cols)) THEN Worth(Cell(d, r, Head(cols))) ELSE 0)
             + WorthSum(d, r, Tail(cols))

\* the whole part of n tenths, in tenths
WholePart(n) == IF n >= 0 THEN n - (n % 10) ELSE n + ((0 - n) % 10)

\* C3: after add_total, in every row the output column is the integer sum of
\* the expected columns (the sum of what the cells count as, cut to a whole
\* number): an absent column counts 0, an unparsable or null cell counts 0
C3_TotalCorrect ==
    pc = "totalled" =>
        /\ Len(df.rows) = Len(prev.rows)
        /\ \A r \in 1..Len(df.rows) :
              Cell(df, r, total) = Num(WholePart(WorthSum(prev, r, Cols(dataset))))

\* an expected column is absent, a cell is unparsable, and the total is 7
C3_Witness ==
    /\ pc = "totalled"
    /\ dataset = "Enrolment"
    /\ ~HasCol(prev, EnrolmentCols[3])
    /\ \E r \in 1..Len(df.rows) :
          /\ \E i \in 1..Len(prev.columns) : prev.rows[r][i] = Str(<<"x">>)
          /\ Cell(df, r, total) = Whole(7)

\* C4: after add_total no cell of an expected column, and no total, is
\* negative
C4_NeverNegative ==
    pc = "totalled" =>
        \A r \in 1..Len(df.rows) :
            /\ \A i \in 1..Len(Cols(dataset)) :
                  /\ HasCol(df, Cols(dataset)[i])
                  /\ Cell(df, r, Cols(dataset)[i]).n >= 0
            /\ Cell(df, r, total).n >= 0

NoFiles(c) == \A i \in 1..Len(Files(c)) : ~fs[Files(c)[i]].exists

Finished == pc \in {"stopped", "raised", "render"}

\* C5: with no input file at all, the combined run ends by reporting the
\* no-data condition, without raising
C5_EmptyCombinedStops ==
    (dataset = "Combined" /\ Finished /\ \A c \in Category : NoFiles(c)) =>
        (pc = "stopped" /\ outcome = "NoData")

\* C6: normalizing a normalized table changes nothing
C6_Idempotent == pc = "twice" => df = prev

\* the text with one trailing ".0" removed
StripSuffix(s) ==
    IF Len(s) >= 2 /\ s[Len(s) - 1] = "." /\ s[Len(s)] = "0"
    THEN SubSeq(s, 1, Len(s) - 2)
    ELSE s

\* C7: normalize turns every pincode into its text with a single trailing
\* ".0" removed and every other character kept
C7_PincodeSuffix ==
    (pc = "once" /\ HasCol(df, pincode)) =>
        \A r \in 1..Len(df.rows) :
            Cell(df, r, pincode) =
                Str(StripSuffix(AsTypeStr(prev.rows[r][ColIndex(df, pincode)]).s))

\* the text is "YYYY-MM" for the year and month of the yyyymmdd number n
IsBucketOf(s, n) ==
    /\ Len(s) = 7
    /\ s[5] = "-"
    /\ AllDigits(SubSeq(s, 1, 4)) /\ AllDigits(SubSeq(s, 6, 7))
    /\ DigitsVal(SubSeq(s, 1, 4)) = n \div 10000
    /\ DigitsVal(SubSeq(s, 6, 7)) = (n \div 100) % 100

\* C8: after normalize, a row whose date parsed has its "YYYY-MM" month, a
\* row whose date did not parse has a null date and a null month, and no row
\* is dropped
C8_MonthDerived ==
    (pc = "once" /\ HasCol(df, date)) =>
        /\ Len(df.rows) = Len(prev.rows)
        /\ \A r \in 1..Len(df.rows) :
              IF Cell(df, r, date).t = "ts"
              THEN /\ Cell(df, r, month).t = "str"
                   /\ IsBucketOf(Cell(df, r, month).s, Cell(df, r, date).n)
              ELSE /\ Cell(df, r, date) = NaT
                   /\ IsNull(Cell(df, r, month))

\* the rows of prev the range start..end keeps
Kept == {r \in 1..Len(prev.rows) :
            /\ ~IsNull(Cell(prev, r, date))
            /\ start <= Cell(prev, r, date).n
            /\ Cell(prev, r, date).n <= end}

\* C9: the filtered table is exactly the rows with a non-null date in
\* start..end (both ends included), in their original order
C9_DateFilter ==
    pc = "render" =>
        /\ df.columns = prev.columns
        /\ Len(df.rows) = Cardinality(Kept)
        /\ \A i \in 1..Len(df.rows) :
              df.rows[i] = prev.rows[CHOOSE r \in Kept :
                                         Cardinality({q \in Kept : q <= r}) = i]

\* a null-date row and a row dated on the end of the range: the first is
\* dropped, the second kept
C9_Witness ==
    /\ pc = "render"
    /\ \E r \in 1..Len(prev.rows) : IsNull(Cell(prev, r, date))
    /\ \E r \in 1..Len(df.rows) : Cell(df, r, date).n = end
    /\ \E r \in 1..Len(prev.rows) :
          ~IsNull(Cell(prev, r, date)) /\ Cell(prev, r, date).n < start

MetricName(c) ==
    CASE c = "Enrolment" -> enrol
      [] c = "Demographic" -> demo
      [] c = "Biometric" -> bioName

\* C10: when some categories have no file and another has rows, the combined
\* run does not raise, and every row of its output has 0 for the absent
\* categories
C10_PartialCombined ==
    (/\ dataset = "Combined"
     /\ \E c \in Category : NoFiles(c)
     /\ \E c \in Category : ~NoFiles(c)) =>
        /\ pc # "raised"
        /\ pc = "check" =>
              \A c \in Category : NoFiles(c) =>
                  \A r \in 1..Len(df.rows) : Cell(df, r, MetricName(c)) = Whole(0)

=============================================================================
